---- MODULE Spec2Model ----
(***************************************************************************)
(* cfgt: the "convert" command (ParseMode.run) and its diagnostic helper   *)
(* highlightPosition, modelled as one sequential state machine.            *)
(*                                                                         *)
(* Bytes are one-character strings, byte sequences and Go strings are      *)
(* sequences of them.  The three parsers (encoding/json, flynn/json5,      *)
(* hashicorp/hcl) are libraries: each call is a choice among the outcomes  *)
(* the call site distinguishes (a Value, a SyntaxError carrying an Offset, *)
(* any other error).                                                       *)
(***************************************************************************)
EXTENDS Integers, Sequences, FiniteSets, TLC

\* ---------------------------------------------------------------- bounds
MaxLen  == 3        \* longest input, in bytes
MaxOver == 1        \* how far past len(input) a reported offset may lie

\* ------------------------------------------------------------- constants
BufioSize == 4096   \* bufio default buffer size used by bufio.NewReader
NumWidth  == 5      \* the width in "%5d"
CaretPad  == 5      \* the 5 in strings.Repeat(" ", col+5)

NL       == "\n"
Alphabet == {"a", NL}
Inputs   == UNION {[1..k -> Alphabet] : k \in 0..MaxLen}

Nil == [nil |-> TRUE]

InFilenames   == {"-", "in.cfg"}
OutFilenames  == {"-", "out.json"}
InputFormats  == {"*", "json", "json5", "hcl", "yaml"}
OutputFormats == {"json", "yaml"}

VARIABLES
    m,              \* ParseMode + GlobalConfig fields
    input,          \* bytes of stdin / of the named input file
    pc,             \* position in run
    f,              \* the input *os.File: [open, data, off, temp]
    buf,            \* bytes.Buffer filled from f
    raw, err,       \* run's locals
    tryAllFormats, errList, errWrapped,
    attempts,       \* the parser calls made so far, in order
    hl,             \* highlightPosition's frame
    out,            \* output side: fo, w, the destination and the calls made on them
    defers,         \* run's deferred calls, last pushed first
    ret             \* what run returned (or Nil while running)

vars == <<m, input, pc, f, buf, raw, err, tryAllFormats, errList, errWrapped,
          attempts, hl, out, defers, ret>>

\* ---------------------------------------------------------------- helpers
Min(a, b) == IF a < b THEN a ELSE b

Repeat(c, k) == [i \in 1..k |-> c]

Push(stack, d) == <<d>> \o stack

\* errors.Wrap / errors.Wrapf: a message on top of a cause.
Wrap(e, msg) == [msg |-> msg, cause |-> e]

\* errors.Cause: the innermost error of a chain built by Wrap.
RECURSIVE Cause(_)
Cause(e) == IF "cause" \in DOMAIN e THEN Cause(e.cause) ELSE e

\* fmt.Errorf
Errorf(msg) == [msg |-> msg]

DigitChar(d) == <<"0", "1", "2", "3", "4", "5", "6", "7", "8", "9">>[d + 1]

RECURSIVE Digits(_)
Digits(k) == IF k < 10 THEN <<DigitChar(k)>>
             ELSE Digits(k \div 10) \o <<DigitChar(k % 10)>>

\* "%5d"
Pad5(k) == LET d == Digits(k)
           IN  IF Len(d) >= NumWidth THEN d ELSE Repeat(" ", NumWidth - Len(d)) \o d

\* the "%5d: " in front of a line of the snippet
LinePrefix(k) == Pad5(k) \o <<":", " ">>

\* fmt.Sprintf("%5d: %s\n", k, text)
NumberedLine(k, text) == LinePrefix(k) \o text \o <<NL>>

\* CaretLine padded by the whole width of "%5d: " instead of 5.
CaretLine_FullPrefix(col) == Repeat(" ", col + NumWidth + 2) \o <<"^", NL>>

\* fmt.Sprintf("%s^\n", strings.Repeat(" ", col+5))
CaretLine(col) == Repeat(" ", col + CaretPad) \o <<"^", NL>>

\* the result of a successful parse of bytes b by grammar g
Value(g, b) == [grammar |-> g, of |-> b]

\* ------------------------------------------------------------------- Init
HlIdle == [caller |-> "none", pos |-> 0, n |-> 0, line |-> 0, col |-> 0,
           lastLine |-> <<>>, thisLine |-> <<>>, br |-> <<>>, highlight |-> <<>>]

Init ==
    /\ m \in [InFilename : InFilenames, OutFilename : OutFilenames,
              InputFormat : InputFormats, OutputFormat : OutputFormats,
              PrettyPrint : BOOLEAN]
    /\ input \in Inputs
    /\ pc = "open"
    /\ f = [state |-> "unopened", data |-> <<>>, off |-> 0, temp |-> "none"]
    /\ buf = <<>>
    /\ raw = Nil
    /\ err = Nil
    /\ tryAllFormats = FALSE
    /\ errList = <<>>
    /\ errWrapped = Nil
    /\ attempts = <<>>
    /\ hl = HlIdle
    /\ out = [fo |-> "none", w |-> <<>>, dest |-> <<>>, created |-> FALSE, log |-> <<>>]
    /\ defers = <<>>
    /\ ret = Nil

\* `return e` from run: the deferred calls run next.
Return(e) == /\ ret' = e
             /\ pc' = "unwind"

\* ------------------------------------------------------------ input side
\* OpenInput with the two defers of the temp file placed after the flush check.
OpenInput_LateDefer ==
    /\ pc = "open"
    /\ UNCHANGED <<m, input, buf, raw, err, tryAllFormats, errList, errWrapped,
                   attempts, hl, out>>
    /\ IF m.InFilename = "-"
       THEN \/ /\ Return(Wrap([msg |-> "TempFile"], "unable to create temp file for stdin"))
               /\ UNCHANGED <<f, defers>>
            \/ /\ f' = [state |-> "open", data |-> <<>>, off |-> 0, temp |-> "exists"]
               /\ UNCHANGED defers
               /\ Return(Wrap([msg |-> "Flush"], "unable to flush temp file"))
            \/ /\ f' = [state |-> "open", data |-> input, off |-> 0, temp |-> "exists"]
               /\ defers' = Push(Push(defers, "os.Remove"), "f.Close")
               /\ pc' = "read"
               /\ UNCHANGED ret
       ELSE \/ /\ Return(Wrap([msg |-> "Open"], "unable to read input"))
               /\ UNCHANGED <<f, defers>>
            \/ /\ f' = [state |-> "open", data |-> input, off |-> 0, temp |-> "none"]
               /\ defers' = Push(defers, "f.Close")
               /\ pc' = "read"
               /\ UNCHANGED ret

\* lines 65-93: obtain f, either a temp file holding stdin or the named file.
OpenInput ==
    /\ pc = "open"
    /\ UNCHANGED <<m, input, buf, raw, err, tryAllFormats, errList, errWrapped,
                   attempts, hl, out>>
    /\ IF m.InFilename = "-"
       THEN \/ \* ioutil.TempFile fails
               /\ Return(Wrap([msg |-> "TempFile"], "unable to create temp file for stdin"))
               /\ UNCHANGED <<f, defers>>
            \/ \* w.Flush fails after the copy
               /\ f' = [state |-> "open", data |-> <<>>, off |-> 0, temp |-> "exists"]
               /\ defers' = Push(Push(defers, "os.Remove"), "f.Close")
               /\ Return(Wrap([msg |-> "Flush"], "unable to flush temp file"))
            \/ \* copy, flush, f.Seek(0, os.SEEK_SET)
               /\ f' = [state |-> "open", data |-> input, off |-> 0, temp |-> "exists"]
               /\ defers' = Push(Push(defers, "os.Remove"), "f.Close")
               /\ pc' = "read"
               /\ UNCHANGED ret
       ELSE \/ \* os.Open fails
               /\ Return(Wrap([msg |-> "Open"], "unable to read input"))
               /\ UNCHANGED <<f, defers>>
            \/ /\ f' = [state |-> "open", data |-> input, off |-> 0, temp |-> "none"]
               /\ defers' = Push(defers, "f.Close")
               /\ pc' = "read"
               /\ UNCHANGED ret

\* what a read of at most k bytes at f's offset delivers
FileRead(file, k) == SubSeq(file.data, file.off + 1, Min(Len(file.data), file.off + k))

\* lines 95-98: io.Copy(&buf, f) reads f from its offset to the end.
ReadInput ==
    /\ pc = "read"
    /\ UNCHANGED <<m, input, raw, err, tryAllFormats, errList, errWrapped,
                   attempts, hl, out, defers>>
    /\ \/ /\ Return(Wrap([msg |-> "Read"], "unable to read input"))
          /\ UNCHANGED <<f, buf>>
       \/ /\ buf' = FileRead(f, Len(f.data))
          /\ f' = [f EXCEPT !.off = Len(f.data)]
          /\ pc' = "switch"
          /\ UNCHANGED ret

\* Dispatch with the default arm missing: an unknown name lands in the last case.
Dispatch_NoDefault ==
    /\ pc = "switch"
    /\ errList' = <<>>
    /\ tryAllFormats' = (m.InputFormat = "*")
    /\ pc' = CASE m.InputFormat = "*"     -> "json"
              [] m.InputFormat = "json"  -> "json"
              [] m.InputFormat = "json5" -> "json5"
              [] OTHER                   -> "hcl"
    /\ UNCHANGED <<m, input, f, buf, raw, err, errWrapped, attempts, hl, out,
                   defers, ret>>

\* Dispatch with the os.Create of the destination moved in front of the switch.
Dispatch_CreateFirst ==
    /\ pc = "switch"
    /\ errList' = <<>>
    /\ tryAllFormats' = (m.InputFormat = "*")
    /\ pc' = CASE m.InputFormat = "*"     -> "json"
              [] m.InputFormat = "json"  -> "json"
              [] m.InputFormat = "json5" -> "json5"
              [] m.InputFormat = "hcl"   -> "hcl"
              [] OTHER                   -> "default"
    /\ out' = IF m.OutFilename = "-" THEN out
              ELSE [out EXCEPT !.fo = "open", !.created = TRUE, !.dest = <<>>,
                               !.log = Append(out.log, "os.Create")]
    /\ UNCHANGED <<m, input, f, buf, raw, err, errWrapped, attempts, hl,
                   defers, ret>>

\* lines 102-107, 131, 155, 175: the switch on m.InputFormat.
Dispatch ==
    /\ pc = "switch"
    /\ errList' = <<>>
    /\ tryAllFormats' = (m.InputFormat = "*")
    /\ pc' = CASE m.InputFormat = "*"     -> "json"
              [] m.InputFormat = "json"  -> "json"
              [] m.InputFormat = "json5" -> "json5"
              [] m.InputFormat = "hcl"   -> "hcl"
              [] OTHER                   -> "default"
    /\ UNCHANGED <<m, input, f, buf, raw, err, errWrapped, attempts, hl, out,
                   defers, ret>>

\* ------------------------------------------------------- the three parsers
\* the offsets a SyntaxError of a parse of b may carry
Offsets(b) == 0..(Len(b) + MaxOver)

\* the errors a decoder of package pkg may return for input b
DecodeErrors(pkg, b) ==
    {[type |-> "other", pkg |-> pkg]}
    \cup {[type |-> "SyntaxError", pkg |-> pkg, Offset |-> k] : k \in Offsets(b)}

\* lines 242-256: ParseJSON(r) returns (raw, nil) or (nil, wrapped error).
ParseJSON(b) ==
    {[raw |-> Value("json", b), err |-> Nil]}
    \cup {[raw |-> Nil, err |-> Wrap(e, "unable to decode JSON")] : e \in DecodeErrors("json", b)}

\* lines 259-273
ParseJSON5(b) ==
    {[raw |-> Value("json5", b), err |-> Nil]}
    \cup {[raw |-> Nil, err |-> Wrap(e, "unable to decode JSON5")] : e \in DecodeErrors("json5", b)}

\* lines 232-239: hcl.Decode reports no SyntaxError type the caller knows.
ParseHCL(b) ==
    {[raw |-> Value("hcl", b), err |-> Nil],
     [raw |-> Nil, err |-> Wrap([type |-> "other", pkg |-> "hcl"], "unable to decode HCL")]}

\* Attempt with the `break` after a successful parse left out: control falls
\* through into the next case.
Attempt_NoBreak(g, results, onErr) ==
    \E r \in results :
        /\ attempts' = Append(attempts, [grammar |-> g, input |-> buf, err |-> r.err])
        /\ raw' = r.raw
        /\ err' = r.err
        /\ pc' = IF r.err # Nil THEN onErr
                 ELSE CASE g = "json"  -> "json5"
                        [] g = "json5" -> "hcl"
                        [] OTHER       -> "output"

\* Attempt with the parser reading the file f itself instead of a copy of buf.
Attempt_FromFile(g, results, onErr) ==
    \E r \in results :
        /\ attempts' = Append(attempts, [grammar |-> g, input |-> FileRead(f, Len(f.data)),
                                         err |-> r.err])
        /\ raw' = r.raw
        /\ err' = r.err
        /\ pc' = IF r.err = Nil THEN "output" ELSE onErr

\* one parser call of run: record it, assign raw and err, break on success
Attempt(g, results, onErr) ==
    \E r \in results :
        /\ attempts' = Append(attempts, [grammar |-> g, input |-> buf, err |-> r.err])
        /\ raw' = r.raw
        /\ err' = r.err
        /\ pc' = IF r.err = Nil THEN "output" ELSE onErr

\* errors.Wrapf(err, "unable to parse %q as %q: %s\nSyntax error at ...", ...)
WrapSyntax(e, parseErr, h) ==
    [msg |-> "unable to parse", cause |-> e,
     args |-> [in |-> m.InFilename, as |-> m.InputFormat, parseErr |-> parseErr,
               line |-> h.line, col |-> h.col, offset |-> parseErr.Offset,
               highlight |-> h.highlight]]

\* WrapPlain formatted like the syntax-error arm, with a line/column/snippet block.
WrapPlain_WithBlock(e) ==
    [msg |-> "unable to parse", cause |-> e,
     args |-> [in |-> m.InFilename, as |-> m.InputFormat, line |-> hl.line,
               col |-> hl.col, highlight |-> hl.highlight]]

\* errors.Wrapf(err, "unable to parse config file as %q", m.InputFormat)
WrapPlain(e) ==
    [msg |-> "unable to parse config file", cause |-> e, args |-> [as |-> m.InputFormat]]

\* HlCall with the f.Seek(0, os.SEEK_SET) before the call left out.
HlCall_NoSeek(caller, pos) ==
    /\ f' = f
    /\ hl' = [caller |-> caller, pos |-> pos, n |-> 0, line |-> 1, col |-> 0,
              lastLine |-> <<>>, thisLine |-> <<>>, br |-> <<>>, highlight |-> <<>>]
    /\ pc' = "hl_loop"

\* f.Seek(0, os.SEEK_SET); highlightPosition(f, pos) is entered (lines 282-285)
HlCall(caller, pos) ==
    /\ f' = [f EXCEPT !.off = 0]
    /\ hl' = [caller |-> caller, pos |-> pos, n |-> 0, line |-> 1, col |-> 0,
              lastLine |-> <<>>, thisLine |-> <<>>, br |-> <<>>, highlight |-> <<>>]
    /\ pc' = "hl_loop"

\* FailOrFallThrough with the test of tryAllFormats left out: the error is
\* always collected and control falls through.
FailOrFallThrough_Always(e, next) ==
    /\ errList' = Append(errList, e)
    /\ pc' = next
    /\ UNCHANGED ret

\* FailOrFallThrough with the append left out.
FailOrFallThrough_NoAppend(e, next) ==
    IF ~tryAllFormats
    THEN /\ Return(e)
         /\ UNCHANGED errList
    ELSE /\ pc' = next
         /\ UNCHANGED <<errList, ret>>

\* FailOrFallThrough with panic(e) in place of `return e`.
FailOrFallThrough_Panic(e, next) ==
    IF ~tryAllFormats
    THEN /\ Return([panic |-> "parse"])
         /\ UNCHANGED errList
    ELSE /\ errList' = Append(errList, e)
         /\ pc' = next
         /\ UNCHANGED ret

\* lines 124-130, 148-154, 168-174: return the error or collect it and fall through
FailOrFallThrough(e, next) ==
    IF ~tryAllFormats
    THEN /\ Return(e)
         /\ UNCHANGED errList
    ELSE /\ errList' = Append(errList, e)
         /\ pc' = next
         /\ UNCHANGED ret

\* line 108-111
TryJSON ==
    /\ pc = "json"
    /\ Attempt("json", ParseJSON(buf), "json_err")
    /\ UNCHANGED <<m, input, f, buf, tryAllFormats, errList, errWrapped, hl, out,
                   defers, ret>>

\* lines 113-122, up to the call of highlightPosition
JSONErr ==
    /\ pc = "json_err"
    /\ LET parseErr == Cause(err)
       IN  IF parseErr.type = "SyntaxError" /\ parseErr.pkg = "json"
           THEN /\ HlCall("json", parseErr.Offset)
                /\ UNCHANGED errWrapped
           ELSE /\ errWrapped' = WrapPlain(err)
                /\ pc' = "json_fail"
                /\ UNCHANGED <<f, hl>>
    /\ UNCHANGED <<m, input, buf, raw, err, tryAllFormats, errList, attempts, out,
                   defers, ret>>

\* line 119: highlightPosition has returned
JSONSyntax ==
    /\ pc = "hl_ret"
    /\ hl.caller = "json"
    /\ errWrapped' = WrapSyntax(err, Cause(err), hl)
    /\ pc' = "json_fail"
    /\ UNCHANGED <<m, input, f, buf, raw, err, tryAllFormats, errList, attempts, hl,
                   out, defers, ret>>

\* lines 124-130
JSONFail ==
    /\ pc = "json_fail"
    /\ FailOrFallThrough(errWrapped, "json5")
    /\ UNCHANGED <<m, input, f, buf, raw, err, tryAllFormats, errWrapped, attempts,
                   hl, out, defers>>

\* lines 132-135
TryJSON5 ==
    /\ pc = "json5"
    /\ Attempt("json5", ParseJSON5(buf), "json5_err")
    /\ UNCHANGED <<m, input, f, buf, tryAllFormats, errList, errWrapped, hl, out,
                   defers, ret>>

\* lines 137-146, up to the call of highlightPosition
JSON5Err ==
    /\ pc = "json5_err"
    /\ LET parseErr == Cause(err)
       IN  IF parseErr.type = "SyntaxError" /\ parseErr.pkg = "json5"
           THEN /\ HlCall("json5", parseErr.Offset)
                /\ UNCHANGED errWrapped
           ELSE /\ errWrapped' = WrapPlain(err)
                /\ pc' = "json5_fail"
                /\ UNCHANGED <<f, hl>>
    /\ UNCHANGED <<m, input, buf, raw, err, tryAllFormats, errList, attempts, out,
                   defers, ret>>

\* line 143: highlightPosition has returned
JSON5Syntax ==
    /\ pc = "hl_ret"
    /\ hl.caller = "json5"
    /\ errWrapped' = WrapSyntax(err, Cause(err), hl)
    /\ pc' = "json5_fail"
    /\ UNCHANGED <<m, input, f, buf, raw, err, tryAllFormats, errList, attempts, hl,
                   out, defers, ret>>

\* lines 148-154
JSON5Fail ==
    /\ pc = "json5_fail"
    /\ FailOrFallThrough(errWrapped, "hcl")
    /\ UNCHANGED <<m, input, f, buf, raw, err, tryAllFormats, errWrapped, attempts,
                   hl, out, defers>>

\* lines 156-159
TryHCL ==
    /\ pc = "hcl"
    /\ Attempt("hcl", ParseHCL(buf), "hcl_err")
    /\ UNCHANGED <<m, input, f, buf, tryAllFormats, errList, errWrapped, hl, out,
                   defers, ret>>

\* lines 161-174: the type switch has only a default arm
HCLFail ==
    /\ pc = "hcl_err"
    /\ errWrapped' = WrapPlain(err)
    /\ FailOrFallThrough(WrapPlain(err), "default")
    /\ UNCHANGED <<m, input, f, buf, raw, err, tryAllFormats, attempts, hl, out,
                   defers>>

\* lines 175-180
Default ==
    /\ pc = "default"
    /\ Return(IF Len(errList) > 0
              THEN [msg |-> "Unsupported input type", arg |-> m.InputFormat,
                    errList |-> errList]
              ELSE [msg |-> "Unsupported input type", arg |-> m.InputFormat])
    /\ UNCHANGED <<m, input, f, buf, raw, err, tryAllFormats, errList, errWrapped,
                   attempts, hl, out, defers>>

\* ------------------------------------------------------- highlightPosition
\* br.ReadByte() (line 287): the bytes br holds once it has refilled from f
BrAvail == IF hl.br = <<>> THEN FileRead(f, BufioSize) ELSE hl.br

\* ScanByte with the line++ of the newline arm left out.
ScanByte_NoLine(h, b) ==
    IF b = NL
    THEN [h EXCEPT !.lastLine = h.thisLine, !.thisLine = <<>>, !.col = 1]
    ELSE [h EXCEPT !.col = h.col + 1, !.thisLine = Append(h.thisLine, b)]

\* lines 291-299: the loop body for the byte b
ScanByte(h, b) ==
    IF b = NL
    THEN [h EXCEPT !.lastLine = h.thisLine, !.thisLine = <<>>,
                   !.line = h.line + 1, !.col = 1]
    ELSE [h EXCEPT !.col = h.col + 1, !.thisLine = Append(h.thisLine, b)]

\* lines 302-307: the snippet
Snippet(h) ==
    (IF h.line > 1 THEN NumberedLine(h.line - 1, h.lastLine) ELSE <<>>)
    \o NumberedLine(h.line, h.thisLine)
    \o CaretLine(h.col)

\* lines 286-300: one iteration that reads a byte
HlStep ==
    /\ pc = "hl_loop"
    /\ hl.n < hl.pos
    /\ BrAvail # <<>>
    /\ hl' = [ScanByte(hl, Head(BrAvail)) EXCEPT !.br = Tail(BrAvail), !.n = hl.n + 1]
    /\ f' = IF hl.br = <<>> THEN [f EXCEPT !.off = f.off + Len(BrAvail)] ELSE f
    /\ UNCHANGED <<m, input, pc, buf, raw, err, tryAllFormats, errList, errWrapped,
                   attempts, out, defers, ret>>

\* HlBreak with ReadByte's error ignored: the loop counts on to pos.
HlBreak_IgnoreEOF ==
    /\ pc = "hl_loop"
    /\ \/ /\ hl.n >= hl.pos
          /\ pc' = "hl_fmt"
          /\ UNCHANGED hl
       \/ /\ hl.n < hl.pos /\ BrAvail = <<>>
          /\ hl' = [hl EXCEPT !.n = hl.n + 1]
          /\ UNCHANGED pc
    /\ UNCHANGED <<m, input, f, buf, raw, err, tryAllFormats, errList, errWrapped,
                   attempts, out, defers, ret>>

\* lines 286-290: the loop ends, by its condition or by ReadByte's error
HlBreak ==
    /\ pc = "hl_loop"
    /\ \/ hl.n >= hl.pos
       \/ hl.n < hl.pos /\ BrAvail = <<>>
    /\ pc' = "hl_fmt"
    /\ UNCHANGED <<m, input, f, buf, raw, err, tryAllFormats, errList, errWrapped,
                   attempts, hl, out, defers, ret>>

\* lines 302-308
HlFormat ==
    /\ pc = "hl_fmt"
    /\ hl' = [hl EXCEPT !.highlight = Snippet(hl)]
    /\ pc' = "hl_ret"
    /\ UNCHANGED <<m, input, f, buf, raw, err, tryAllFormats, errList, errWrapped,
                   attempts, out, defers, ret>>

\* ----------------------------------------------------------- output side
\* OpenOutput with `defer w.Flush()` registered before the defers of fo.
OpenOutput_FlushLast ==
    /\ pc = "output"
    /\ IF m.OutFilename = "-"
       THEN /\ out' = [out EXCEPT !.fo = "stdout"]
            /\ defers' = Push(defers, "w.Flush")
            /\ pc' = "encode"
            /\ UNCHANGED ret
       ELSE \/ /\ Return(Wrap([msg |-> "Create"], "unable to open output file"))
               /\ UNCHANGED <<out, defers>>
            \/ /\ out' = [out EXCEPT !.fo = "open", !.created = TRUE, !.dest = <<>>,
                                      !.log = Append(out.log, "os.Create")]
               /\ defers' = Push(Push(Push(defers, "w.Flush"), "fo.Close"), "fo.Sync")
               /\ pc' = "encode"
               /\ UNCHANGED ret
    /\ UNCHANGED <<m, input, f, buf, raw, err, tryAllFormats, errList, errWrapped,
                   attempts, hl>>

\* lines 183-211: the destination and its buffered writer
OpenOutput ==
    /\ pc = "output"
    /\ IF m.OutFilename = "-"
       THEN /\ out' = [out EXCEPT !.fo = "stdout"]
            /\ defers' = Push(defers, "w.Flush")
            /\ pc' = "encode"
            /\ UNCHANGED ret
       ELSE \/ \* os.Create fails
               /\ Return(Wrap([msg |-> "Create"], "unable to open output file"))
               /\ UNCHANGED <<out, defers>>
            \/ \* os.Create creates or truncates the file
               /\ out' = [out EXCEPT !.fo = "open", !.created = TRUE, !.dest = <<>>,
                                      !.log = Append(out.log, "os.Create")]
               /\ defers' = Push(Push(Push(defers, "fo.Close"), "fo.Sync"), "w.Flush")
               /\ pc' = "encode"
               /\ UNCHANGED ret
    /\ UNCHANGED <<m, input, f, buf, raw, err, tryAllFormats, errList, errWrapped,
                   attempts, hl>>

\* lines 213-228
Encode ==
    /\ pc = "encode"
    /\ IF m.OutputFormat = "json"
       THEN \/ /\ Return(Wrap([msg |-> "Encode"], "unable to encode"))
               /\ UNCHANGED out
            \/ /\ out' = [out EXCEPT !.w = Append(out.w,
                              [value |-> raw,
                               indent |-> (m.PrettyPrint /\ m.OutFilename = "-")])]
               /\ Return(Nil)
       ELSE /\ Return(Errorf("Unsupported output type"))
            /\ UNCHANGED out
    /\ UNCHANGED <<m, input, f, buf, raw, err, tryAllFormats, errList, errWrapped,
                   attempts, hl, defers>>

\* ------------------------------------------------------- deferred calls
\* line 211: defer w.Flush()
DeferFlush ==
    /\ pc = "unwind"
    /\ defers # <<>> /\ Head(defers) = "w.Flush"
    /\ out' = [out EXCEPT !.dest = out.dest \o out.w, !.w = <<>>,
                           !.log = Append(out.log, "w.Flush")]
    /\ defers' = Tail(defers)
    /\ UNCHANGED <<m, input, pc, f, buf, raw, err, tryAllFormats, errList,
                   errWrapped, attempts, hl, ret>>

\* lines 202-206: defer fo.Sync(), panicking on error
DeferSync ==
    /\ pc = "unwind"
    /\ defers # <<>> /\ Head(defers) = "fo.Sync"
    /\ out' = [out EXCEPT !.log = Append(out.log, "fo.Sync")]
    /\ defers' = Tail(defers)
    /\ \/ UNCHANGED ret
       \/ ret' = [panic |-> "fo.Sync"]
    /\ UNCHANGED <<m, input, pc, f, buf, raw, err, tryAllFormats, errList,
                   errWrapped, attempts, hl>>

\* lines 195-199: defer fo.Close(), panicking on error
DeferClose ==
    /\ pc = "unwind"
    /\ defers # <<>> /\ Head(defers) = "fo.Close"
    /\ out' = [out EXCEPT !.fo = "closed", !.log = Append(out.log, "fo.Close")]
    /\ defers' = Tail(defers)
    /\ \/ UNCHANGED ret
       \/ ret' = [panic |-> "fo.Close"]
    /\ UNCHANGED <<m, input, pc, f, buf, raw, err, tryAllFormats, errList,
                   errWrapped, attempts, hl>>

\* lines 76, 92: defer f.Close()
DeferInClose ==
    /\ pc = "unwind"
    /\ defers # <<>> /\ Head(defers) = "f.Close"
    /\ f' = [f EXCEPT !.state = "closed"]
    /\ defers' = Tail(defers)
    /\ UNCHANGED <<m, input, pc, buf, raw, err, tryAllFormats, errList,
                   errWrapped, attempts, hl, out, ret>>

\* line 75: defer os.Remove(f.Name())
DeferRemove ==
    /\ pc = "unwind"
    /\ defers # <<>> /\ Head(defers) = "os.Remove"
    /\ f' = [f EXCEPT !.temp = "removed"]
    /\ defers' = Tail(defers)
    /\ UNCHANGED <<m, input, pc, buf, raw, err, tryAllFormats, errList,
                   errWrapped, attempts, hl, out, ret>>

\* run has returned to its caller
Done ==
    /\ pc = "unwind"
    /\ defers = <<>>
    /\ pc' = "done"
    /\ UNCHANGED <<m, input, f, buf, raw, err, tryAllFormats, errList, errWrapped,
                   attempts, hl, out, defers, ret>>

Next ==
    \/ OpenInput \/ ReadInput \/ Dispatch
    \/ TryJSON \/ JSONErr \/ JSONSyntax \/ JSONFail
    \/ TryJSON5 \/ JSON5Err \/ JSON5Syntax \/ JSON5Fail
    \/ TryHCL \/ HCLFail \/ Default
    \/ HlStep \/ HlBreak \/ HlFormat
    \/ OpenOutput \/ Encode
    \/ DeferFlush \/ DeferSync \/ DeferClose \/ DeferInClose \/ DeferRemove
    \/ Done

Spec == Init /\ [][Next]_vars

\* ------------------------------------------------------------------ claims
Grammars == <<"json", "json5", "hcl">>

Range(s) == {s[i] : i \in 1..Len(s)}

IsPrefix(s, t) == /\ Len(s) <= Len(t)
                  /\ \A i \in 1..Len(s) : s[i] = t[i]

AttemptNames == [i \in 1..Len(attempts) |-> attempts[i].grammar]

Succeeded(a) == a.err = Nil

FailedAttempts == SelectSeq(attempts, LAMBDA a : ~Succeeded(a))

\* every document handed to the encoder, flushed or not
Encoded == out.dest \o out.w

OutputUntouched == /\ out.fo = "none"
                   /\ ~out.created
                   /\ Encoded = <<>>

ParseErrorMsgs == {"unable to parse", "unable to parse config file",
                   "Unsupported input type"}

InputIOMsgs == {"unable to create temp file for stdin", "unable to flush temp file",
                "unable to read input"}

HasMsg(e, msgs) == /\ "msg" \in DOMAIN e
                   /\ e.msg \in msgs

\* run is between the failure of a parser and the handling of its wrapped error
Wrapping == pc \in {"json_err", "json_fail", "json5_err", "json5_fail", "hcl_err",
                    "hl_loop", "hl_fmt", "hl_ret"}

\* C1: in detect mode the parsers are called in the order json, json5, hcl, each
\* only after all earlier ones failed; the first success ends the attempts, its
\* Value is the only thing encoded, and run reports no parse error.
C1_DetectFirstSuccess ==
    m.InputFormat = "*" =>
        /\ IsPrefix(AttemptNames, Grammars)
        /\ \A i \in 1..Len(attempts) :
              Succeeded(attempts[i]) =>
                  /\ i = Len(attempts)
                  /\ raw = Value(attempts[i].grammar, buf)
                  /\ ~HasMsg(ret, ParseErrorMsgs)
                  /\ ~Wrapping /\ pc \notin {"json", "json5", "hcl", "default"}
        /\ \A d \in Range(Encoded) :
              /\ attempts # <<>>
              /\ Succeeded(attempts[Len(attempts)])
              /\ d.value = Value(attempts[Len(attempts)].grammar, buf)
        /\ (pc = "done" /\ ret = Nil) => Len(out.dest) = 1

C1_Witness ==
    /\ m.InputFormat = "*"
    /\ pc = "done"
    /\ ret = Nil
    /\ AttemptNames = <<"json", "json5">>
    /\ Succeeded(attempts[2])
    /\ out.dest # <<>>
    /\ out.dest[1].value.grammar = "json5"

\* C2: with InputFormat "json", "json5" or "hcl" only that parser is called, once;
\* its failure is returned as the single wrapped error with nothing encoded and
\* the destination untouched; its success is what gets encoded.
C2_SpecificOnly ==
    m.InputFormat \in Range(Grammars) =>
        /\ Len(attempts) <= 1
        /\ \A i \in 1..Len(attempts) : attempts[i].grammar = m.InputFormat
        /\ errList = <<>>
        /\ (pc \in {"unwind", "done"} /\ ~HasMsg(ret, InputIOMsgs)) => Len(attempts) = 1
        /\ (Wrapping \/ pc \in {"output", "encode"}) => Len(attempts) = 1
        /\ \A i \in 1..Len(attempts) :
              IF Succeeded(attempts[i])
              THEN /\ \A d \in Range(Encoded) : d.value = Value(m.InputFormat, buf)
                   /\ (pc = "done" /\ ret = Nil) => Len(out.dest) = 1
                   /\ ~HasMsg(ret, ParseErrorMsgs)
              ELSE /\ OutputUntouched
                   /\ raw = Nil
                   /\ Wrapping \/ pc \in {"unwind", "done"}
                   /\ pc \in {"unwind", "done"} =>
                         /\ HasMsg(ret, {"unable to parse", "unable to parse config file"})
                         /\ ret.cause = attempts[i].err
                         /\ ret.args.as = m.InputFormat

C2_Witness ==
    /\ m.InputFormat = "json5"
    /\ pc = "done"
    /\ Len(attempts) = 1
    /\ ~Succeeded(attempts[1])
    /\ HasMsg(ret, {"unable to parse"})

\* C3: in detect mode errList holds, between attempts, one entry per failed
\* attempt in attempt order, each wrapping that attempt's error: 3 entries when
\* all fail, 1 when json5 is the first to succeed, 2 when hcl is.
C3_ErrListPerFailure ==
    m.InputFormat = "*" =>
        /\ Len(errList) = Len(FailedAttempts) - (IF Wrapping THEN 1 ELSE 0)
        /\ \A i \in 1..Len(errList) :
              /\ errList[i].cause = FailedAttempts[i].err
              /\ FailedAttempts[i].grammar = Grammars[i]
              /\ Cause(errList[i]).pkg = Grammars[i]
        /\ pc = "default" => Len(errList) = 3
        /\ \A i \in 1..Len(attempts) :
              Succeeded(attempts[i]) => Len(errList) = i - 1
        /\ (pc \in {"unwind", "done"} /\ HasMsg(ret, {"Unsupported input type"})) =>
              /\ ret.errList = errList
              /\ Len(errList) = 3

C3_Witness ==
    /\ m.InputFormat = "*"
    /\ pc = "done"
    /\ AttemptNames = Grammars
    /\ Succeeded(attempts[3])
    /\ Len(errList) = 2
    /\ Cause(errList[1]).type = "SyntaxError"

\* C4: with an InputFormat that is neither "*" nor a grammar, run returns the
\* unsupported-input-format error, calls no parser and leaves the output alone.
C4_UnsupportedInputFormat ==
    m.InputFormat \notin ({"*"} \cup Range(Grammars)) =>
        /\ attempts = <<>>
        /\ OutputUntouched
        /\ pc \notin {"json", "json5", "hcl", "output", "encode"}
        /\ ~Wrapping
        /\ pc \in {"unwind", "done"} =>
              \/ HasMsg(ret, InputIOMsgs)
              \/ ret = [msg |-> "Unsupported input type", arg |-> m.InputFormat]

C4_Witness ==
    /\ m.InputFormat = "yaml"
    /\ pc = "done"
    /\ HasMsg(ret, {"Unsupported input type"})
    /\ attempts = <<>>

\* C5: every per-grammar error names, after "as", the grammar whose parser
\* produced the error it wraps.
C5_ErrorNamesGrammar ==
    /\ \A i \in 1..Len(errList) : errList[i].args.as = Cause(errList[i]).pkg
    /\ HasMsg(ret, {"unable to parse", "unable to parse config file"}) =>
          ret.args.as = Cause(ret).pkg

\* highlightPosition has returned line, col and highlight to run
HlReturned == pc = "hl_ret"

Max(S) == CHOOSE x \in S : \A y \in S : y <= x

\* the number of newline bytes among the first k bytes of s
NewlinesBefore(s, k) == Cardinality({i \in 1..k : s[i] = NL})

\* how many of the first k bytes of s precede or are the last newline among them
LineStart(s, k) == Max({0} \cup {i \in 1..k : s[i] = NL})

\* s cut at its newlines: one piece more than it has newlines
RECURSIVE Pieces(_)
Pieces(s) ==
    IF s = <<>> THEN << <<>> >>
    ELSE LET rest == Pieces(Tail(s))
         IN  IF Head(s) = NL THEN << <<>> >> \o rest
             ELSE << <<Head(s)>> \o rest[1] >> \o Tail(rest)

\* the lines of the returned snippet; the snippet ends in a newline
SnippetLines == LET p == Pieces(hl.highlight) IN SubSeq(p, 1, Len(p) - 1)

\* C6: for an offset pos <= len(input), line is 1 + the number of newlines among
\* the first pos bytes of the input.
C6_Line ==
    (HlReturned /\ hl.pos <= Len(input)) =>
        hl.line = 1 + NewlinesBefore(input, hl.pos)

C6_Witness ==
    /\ HlReturned
    /\ hl.pos < Len(input)
    /\ hl.line = 2
    /\ input[Len(input)] = NL

\* C7: for an offset pos <= len(input), column is 1 + the number of bytes between
\* the last newline before pos (or the start of the input) and pos, on the first
\* line as on later ones; offset 0 gives column 1.
C7_Column ==
    (HlReturned /\ hl.pos <= Len(input)) =>
        hl.col = (hl.pos - LineStart(input, hl.pos)) + 1

\* C8: the caret line is (width of the line-number prefix + column) spaces and
\* then '^'.
C8_CaretPastPrefix ==
    HlReturned =>
        SnippetLines[Len(SnippetLines)] =
            Repeat(" ", Len(LinePrefix(hl.line)) + hl.col) \o <<"^">>

\* C8 as amended: the caret line, the last line of the snippet, is column + 5
\* spaces and then '^'; 5 is the width of the number field, two less than the
\* width of the prefix "%5d: ".
C8_CaretColumnPlus5 ==
    HlReturned =>
        /\ Len(SnippetLines) = (IF hl.line > 1 THEN 3 ELSE 2)
        /\ SnippetLines[Len(SnippetLines)] = Repeat(" ", hl.col + 5) \o <<"^">>
        /\ Len(SnippetLines[Len(SnippetLines)]) = Len(LinePrefix(hl.line)) + hl.col - 1

C8_Witness ==
    /\ HlReturned
    /\ hl.line > 1
    /\ hl.col > 1
    /\ hl.pos <= Len(input)

\* C9: the snippet shows the whole preceding line of the input exactly when
\* line > 1, then the whole error line of the input, each behind its
\* right-aligned line number.
C9_WholeLines ==
    (HlReturned /\ hl.pos <= Len(input)) =>
        SubSeq(SnippetLines, 1, Len(SnippetLines) - 1) =
            (IF hl.line > 1
             THEN << LinePrefix(hl.line - 1) \o Pieces(input)[hl.line - 1] >>
             ELSE <<>>)
            \o << LinePrefix(hl.line) \o Pieces(input)[hl.line] >>

\* highlightPosition's loop run over the first k bytes of data, from frame h
RECURSIVE Scan(_, _, _)
Scan(h, data, k) ==
    IF k = 0 \/ data = <<>> THEN h
    ELSE Scan(ScanByte(h, Head(data)), Tail(data), k - 1)

\* the frame highlightPosition ends with for the input read to the offset k
ScanTo(k) == Scan([hl EXCEPT !.line = 1, !.col = 0, !.lastLine = <<>>,
                              !.thisLine = <<>>], input, k)

\* C10: for an offset pos >= len(input) highlightPosition returns having consumed
\* exactly len(input) bytes, with the line, column and snippet of pos =
\* len(input); it never consumes more bytes than the input has.
C10_PastEnd ==
    /\ pc \in {"hl_loop", "hl_fmt", "hl_ret"} =>
          /\ hl.n <= Len(input)
          /\ hl.n <= hl.pos
          /\ ret = Nil
    /\ (HlReturned /\ hl.pos >= Len(input)) =>
          /\ hl.n = Len(input)
          /\ hl.line = 1 + NewlinesBefore(input, Len(input))
          /\ hl.line = ScanTo(Len(input)).line
          /\ hl.col = ScanTo(Len(input)).col
          /\ hl.highlight = Snippet(ScanTo(Len(input)))

C10_Witness ==
    /\ HlReturned
    /\ hl.pos > Len(input)
    /\ Len(input) >= 2
    /\ hl.line > 1

HlRunning == pc \in {"hl_loop", "hl_fmt", "hl_ret"}

CarriesOffset(e) == Cause(e).type = "SyntaxError"

\* the error run builds for a failure that carries no offset
IsPlainWrapOf(w, e) == /\ w.msg = "unable to parse config file"
                       /\ w.cause = e
                       /\ DOMAIN w.args = {"as"}

\* C11: a failure without a byte offset (any hcl failure, a json or json5 failure
\* that is no SyntaxError) is wrapped without line, column or snippet, keeps the
\* underlying error as its cause, is returned or collected like any other, and
\* highlightPosition runs only for a failure that carries an offset.
C11_NoOffsetNoBlock ==
    /\ HlRunning =>
          /\ CarriesOffset(err)
          /\ Cause(err).pkg = hl.caller
          /\ hl.pos = Cause(err).Offset
          /\ hl.caller \in {"json", "json5"}
    /\ \A i \in 1..Len(FailedAttempts) :
          ~CarriesOffset(FailedAttempts[i].err) =>
              /\ (i = Len(FailedAttempts) /\ pc \in {"json_fail", "json5_fail"}) =>
                    IsPlainWrapOf(errWrapped, FailedAttempts[i].err)
              /\ (m.InputFormat = "*" /\ i <= Len(errList)) =>
                    IsPlainWrapOf(errList[i], FailedAttempts[i].err)
              /\ (m.InputFormat = "*" /\ i > Len(errList)) =>
                    pc \in {"json_err", "json_fail", "json5_err", "json5_fail", "hcl_err"}
              /\ m.InputFormat # "*" =>
                    /\ pc \in {"json_err", "json_fail", "json5_err", "json5_fail",
                               "hcl_err", "unwind", "done"}
                    /\ pc \in {"unwind", "done"} =>
                          IsPlainWrapOf(ret, FailedAttempts[i].err)
    /\ \A i \in 1..Len(FailedAttempts) :
          FailedAttempts[i].grammar = "hcl" => ~CarriesOffset(FailedAttempts[i].err)

C11_Witness ==
    /\ m.InputFormat = "*"
    /\ pc = "done"
    /\ Len(errList) = 3
    /\ CarriesOffset(errList[1])
    /\ ~CarriesOffset(errList[2])
    /\ IsPlainWrapOf(errList[2], attempts[2].err)
    /\ IsPlainWrapOf(errList[3], attempts[3].err)

PastRead == Wrapping \/ pc \in {"switch", "json", "json5", "hcl", "default",
                                 "output", "encode"}

\* C13: no parse attempt and no diagnostic changes the buffered bytes: every
\* parser called in a run is handed the complete input.
C13_SameBytes ==
    /\ \A i \in 1..Len(attempts) : attempts[i].input = input
    /\ PastRead => /\ buf = input
                   /\ f.data = input
    /\ attempts # <<>> => buf = input

C13_Witness ==
    /\ Len(attempts) = 3
    /\ Len(input) >= 2
    /\ CarriesOffset(attempts[1].err)
    /\ Cause(attempts[1].err).Offset = 1
    /\ CarriesOffset(attempts[2].err)
    /\ attempts[3].input = input

\* the deferred calls of run that release f, in the order they will run
InputDefers == SelectSeq(defers, LAMBDA d : d \in {"f.Close", "os.Remove"})

\* C14: once the temp file for stdin exists it is closed and then removed on every
\* return path, and an opened named input file is closed on every return path.
C14_InputReleased ==
    /\ f.temp # "none" => m.InFilename = "-"
    /\ f.temp = "removed" => f.state = "closed"
    /\ pc = "done" => /\ f.state \in {"unopened", "closed"}
                      /\ f.temp \in {"none", "removed"}
                      /\ defers = <<>>
    /\ (f.state = "open" /\ f.temp = "exists") => InputDefers = <<"f.Close", "os.Remove">>
    /\ (f.state = "open" /\ f.temp = "none") => InputDefers = <<"f.Close">>
    /\ (f.state = "closed" /\ f.temp = "exists") => InputDefers = <<"os.Remove">>
    /\ (f.state = "unopened") => /\ InputDefers = <<>>
                                 /\ pc \in {"open", "unwind", "done"}

C14_Witness ==
    /\ pc = "done"
    /\ m.InFilename = "-"
    /\ f.state = "closed"
    /\ f.temp = "removed"
    /\ HasMsg(ret, {"unable to flush temp file"})

\* C15: the JSON written is indented exactly when the pretty-print flag is set,
\* on standard output and in a named output file alike.
C15_IndentIffPretty ==
    \A d \in Range(Encoded) : d.indent = m.PrettyPrint

\* the last parser call failed
LastFailed == /\ attempts # <<>>
              /\ ~Succeeded(attempts[Len(attempts)])

LastSucceeded == /\ attempts # <<>>
                 /\ Succeeded(attempts[Len(attempts)])

Panicked == "panic" \in DOMAIN ret

\* C16: a parse failure never ends in a panic: run returns an error value, and
\* the deferred fo.Close and fo.Sync, the only panic sites, are registered and
\* run only after a parse has succeeded.
C16_NoPanicOnParseFailure ==
    /\ Panicked => LastSucceeded
    /\ ({"fo.Sync", "fo.Close"} \cap Range(defers) # {}) => LastSucceeded
    /\ ({"fo.Sync", "fo.Close"} \cap Range(out.log) # {}) => LastSucceeded
    /\ (LastFailed /\ pc \in {"unwind", "done"}) =>
          /\ HasMsg(ret, ParseErrorMsgs)
          /\ "cause" \in DOMAIN ret \/ ret.errList = errList

C16_Witness ==
    /\ pc = "done"
    /\ m.InputFormat = "*"
    /\ m.OutFilename # "-"
    /\ Len(attempts) = 3
    /\ LastFailed
    /\ HasMsg(ret, {"Unsupported input type"})

\* C17: when run fails on the input side (open, read, the requested grammar, all
\* grammars, unsupported input format) the destination is never opened, created,
\* truncated or written.
C17_InputFailureLeavesOutput ==
    /\ HasMsg(ret, InputIOMsgs \cup ParseErrorMsgs) =>
          /\ OutputUntouched
          /\ out.log = <<>>
          /\ Range(defers) \cap {"w.Flush", "fo.Sync", "fo.Close"} = {}
    /\ ~LastSucceeded => /\ OutputUntouched
                         /\ out.log = <<>>

C17_Witness ==
    /\ pc = "done"
    /\ m.OutFilename # "-"
    /\ m.InputFormat = "json"
    /\ HasMsg(ret, {"unable to parse config file"})
    /\ OutputUntouched

\* C18: with an OutputFormat other than "json" run returns 'Unsupported output
\* type' without having created or truncated the named output file.
C18_UnsupportedOutputNoCreate ==
    HasMsg(ret, {"Unsupported output type"}) =>
        /\ ~out.created
        /\ "os.Create" \notin Range(out.log)

\* the deferred calls of run on the output side, in the order they will run
OutputDefers == SelectSeq(defers, LAMBDA d : d \in {"w.Flush", "fo.Sync", "fo.Close"})

\* C19: with a named output file, on every return path after os.Create the writer
\* is flushed, then the file synced, then closed, each once and in that order.
C19_FlushSyncClose ==
    m.OutFilename # "-" =>
        /\ IsPrefix(out.log, <<"os.Create", "w.Flush", "fo.Sync", "fo.Close">>)
        /\ out.created => out.log \o OutputDefers =
                              <<"os.Create", "w.Flush", "fo.Sync", "fo.Close">>
        /\ ~out.created => /\ out.log = <<>>
                           /\ OutputDefers = <<>>
        /\ (pc = "done" /\ out.created) =>
              /\ out.log = <<"os.Create", "w.Flush", "fo.Sync", "fo.Close">>
              /\ out.fo = "closed"
              /\ out.w = <<>>
        /\ "fo.Sync" \in Range(out.log) => out.w = <<>>

C19_Witness ==
    /\ pc = "done"
    /\ m.OutFilename # "-"
    /\ out.created
    /\ ret = [panic |-> "fo.Sync"]
    /\ out.log = <<"os.Create", "w.Flush", "fo.Sync", "fo.Close">>
    /\ Len(out.dest) = 1

====
